---------------------------- MODULE Spec2Model ----------------------------
(***************************************************************************)
(* Model of github.com/Sugther/go-structs: the Try type (package try), the *)
(* Either and Option types it is built on, and the composition of the      *)
(* deferred finallyFunction across Finally / FlatMap / FlatMapFail / End.  *)
(*                                                                         *)
(* A Try is an immutable Go struct {either, finallyFunction}.  The closure *)
(* held in finallyFunction is modelled by a record naming the function     *)
(* literal that built it together with the variables it captured; Call     *)
(* runs such a record the way Go runs the closure.  Every invocation of a  *)
(* caller-supplied function is recorded as an event [f, arg].              *)
(***************************************************************************)
EXTENDS Integers, Sequences, FiniteSets, TLC

\* pool: the Try values the caller holds in variables (in SpecSet: the
\*       slices it holds)
\* last: the call the caller made last, with what it returned and the
\*       caller-supplied functions it invoked (events)
VARIABLES pool, last
vars == <<pool, last>>

\* ----------------------------------------------------------------- bounds
MaxHeld     == 2   \* Try values the caller holds in variables at one time
MaxClosures == 3   \* closures (non-empty finallyFunctions) those values carry
MaxVal   == 1   \* success values are 1..MaxVal
MaxErr   == 1   \* errors are 1..MaxErr
MaxLen   == 3   \* slices handed to the list and set functions have 0..MaxLen values
MaxElem  == 2   \* the values of those slices are 1..MaxElem
MaxStack == 4   \* nested calls of Append the stack has room for

Vals == 1..MaxVal
Errs == 1..MaxErr
Nil  == 0       \* the nil error, and the zero value of T = int

\* ------------------------------------------------------- caller functions
\* func(T) passed to Finally
FinFns == {[kind |-> "user", id |-> "f1"], [kind |-> "user", id |-> "f2"]}
\* func(T) R passed to Map and func(error) error passed to MapLeft
IncFn  == [kind |-> "fn", id |-> "inc"]
WrapFn == [kind |-> "fn", id |-> "wrap"]
NoFn   == [kind |-> "none", id |-> "none"]

ApplyFn(f, v) == IF f.id = "inc" THEN v + 1 ELSE v + 10

\* --------------------------------------------------------- package option
OptionPure(value) == [value |-> value, isEmpty |-> FALSE]
OptionEmpty == [value |-> Nil, isEmpty |-> TRUE]
Get(opt) == opt.value
\* variant: Get checks for emptiness and panics on an empty Option
OptionGetChecked(opt) == [value |-> Get(opt), panic |-> opt.isEmpty]

\* method Get: what a call returns, and whether it panics instead; the
\* body is the one return statement
OptionGet(opt) == [value |-> Get(opt), panic |-> FALSE]
IsEmpty(opt) == opt.isEmpty
IsPresent(opt) == ~opt.isEmpty

\* option.Fold: onEmpty stands for fEmpty() and onPresent for
\* fPresent(opt.value); only the one of the branch taken is evaluated
OptionFold(opt, onEmpty, onPresent) ==
    IF opt.isEmpty THEN onEmpty ELSE onPresent

\* variant: GetOrElse returns the stored value without the emptiness test
OptionGetOrElseUnchecked(opt, defaultValue) == opt.value

OptionGetOrElse(opt, defaultValue) == OptionFold(opt, defaultValue, opt.value)

\* ---------------------------------------------------------- package equal
\* An interface{} argument is a record whose field type names its dynamic
\* type and whose field of that name holds the value.
\* reflect.DeepEqual of two values of T = int or of two errors
ComparableEquals(value1, value2) == value1 = value2

\* method Equals of Option[T]: other.(Option[T]) holds for type "Option"
OptionEquals(opt, other) ==
    IF other.type = "Option"
    THEN \/ other.option.isEmpty /\ opt.isEmpty
         \/ ComparableEquals(other.option.value, other.option.value)
    ELSE FALSE

\* --------------------------------------------------------- package either
Right(r) == [Right |-> OptionPure(r), Left |-> OptionEmpty]
\* variant: Left leaves the field Right at its zero value, an Option that
\* is not marked empty
LeftZeroRight(l) ==
    [Right |-> [value |-> Nil, isEmpty |-> FALSE], Left |-> OptionPure(l)]

Left(l) == [Right |-> OptionEmpty, Left |-> OptionPure(l)]
IsRight(either) == ~IsEmpty(either.Right)
IsLeft(either) == ~IsEmpty(either.Left)

\* variant: Fold with its two branches swapped
EitherFoldSwapped(either, onLeft, onRight) ==
    IF IsRight(either) THEN onLeft ELSE onRight

\* either.Fold: onRight stands for fRight(either.Right.Get()) and onLeft for
\* fLeft(either.Left.Get()); only the one of the branch taken is evaluated
EitherFold(either, onLeft, onRight) ==
    IF IsRight(either) THEN onRight ELSE onLeft

EitherGetOrElse(either, defaultValue) ==
    OptionGetOrElse(either.Right, defaultValue)

\* f(v) for the function handed to either.Fold by FlatMap and FlatMapLeft: a
\* caller's closure returning the Either ret, the literal of Map
\* (Right(f(r))), the literal of MapLeft (Left(f(l))), or the constructor
\* Left / Right itself
InvokeEither(f, v) ==
    CASE f.kind = "constEither" -> [res |-> f.ret, events |-> <<[f |-> f, arg |-> v]>>]
      [] f.kind = "rightOf" -> [res |-> Right(ApplyFn(f.f, v)),
                                events |-> <<[f |-> f.f, arg |-> v]>>]
      [] f.kind = "leftOf"  -> [res |-> Left(ApplyFn(f.f, v)),
                                events |-> <<[f |-> f.f, arg |-> v]>>]
      [] f.kind = "Left"    -> [res |-> Left(v), events |-> <<>>]
      [] f.kind = "Right"   -> [res |-> Right(v), events |-> <<>>]

\* variant: FlatMap applies f without folding, to whatever Right holds
EitherFlatMapUnfolded(either, f) == InvokeEither(f, Get(either.Right))

EitherFlatMap(either, f) ==
    EitherFold(either, InvokeEither([kind |-> "Left"], Get(either.Left)),
                       InvokeEither(f, Get(either.Right)))

EitherMap(either, f) == EitherFlatMap(either, [kind |-> "rightOf", f |-> f])

EitherFlatMapLeft(either, f) ==
    EitherFold(either, InvokeEither(f, Get(either.Left)),
                       InvokeEither([kind |-> "Right"], Get(either.Right)))

EitherMapLeft(either, f) == EitherFlatMapLeft(either, [kind |-> "leftOf", f |-> f])

\* variant: ToOption hands out the field Left
EitherToOptionOfLeft(either) == either.Left

EitherToOption(either) == either.Right

\* method Equals of Either[L, R]: equal.Equals on two Options dispatches to
\* the method Equals of the first
EitherEquals(either, other) ==
    IF other.type = "Either"
    THEN /\ OptionEquals(either.Right, [type |-> "Option", option |-> other.either.Right])
         /\ OptionEquals(either.Left, [type |-> "Option", option |-> other.either.Left])
    ELSE FALSE

\* ----------------------------------------------------------- package list
\* A List is the struct {values}, a slice modelled by a sequence; index i of
\* the slice is index i + 1 of the sequence.
ListPure(values) == [values |-> values]
ListEmpty == ListPure(<<>>)
ListLen(list) == Len(list.values)
ListAppend(list, values) == ListPure(list.values \o values)
ToArray(list) == list.values

\* list.Contains: AnyMatch, that is Find over every value, of equal.Equals
ListContains(list, value) ==
    \E i \in 1..Len(list.values) : ComparableEquals(list.values[i], value)

\* variant: the loop of Fold visits every element
FoldBoundAll(values) == Len(values)

\* the loop of Fold runs while i < FoldBound(values)
FoldBound(values) == Len(values) - 1

\* f(result, value) for the func(R, T) R handed to Fold: a caller's sum or
\* positional digits, the literal of Distinct, and the literal of the method
\* Set.Equals over the other set os
InvokeFold(f, result, value) ==
    CASE f.kind = "sum"      -> result + value
      [] f.kind = "digits"   -> result * 10 + value
      [] f.kind = "distinct" -> IF ListContains(result, value) THEN result
                                ELSE ListAppend(result, <<value>>)
      [] f.kind = "containedIn" -> result /\ ListContains(f.os.list, value)

\* the for loop of Fold from index i on, result being the local variable
RECURSIVE FoldLoop(_, _, _, _)
FoldLoop(values, i, result, f) ==
    IF i < FoldBound(values)
    THEN FoldLoop(values, i + 1, InvokeFold(f, result, values[i + 1]), f)
    ELSE result

ListFold(list, root, f) == FoldLoop(list.values, 0, root, f)

ListDistinct(list) == ListFold(list, ListEmpty, [kind |-> "distinct"])

\* ------------------------------------------------------------ package set
\* A Set is the struct {list}.
SetPureList(l) == [list |-> l]
SetPure(values) == SetPureList(ListDistinct(ListPure(values)))
SetOf(values) == SetPure(values)
SetLen(set) == ListLen(set.list)
SetFold(set, root, f) == ListFold(set.list, root, f)
SetContains(set, value) == ListContains(set.list, value)

\* method Equals of Set[T]
SetEquals(set, other) ==
    IF other.type = "Set"
    THEN IF SetLen(set) # SetLen(set) THEN FALSE
         ELSE SetFold(set, FALSE, [kind |-> "containedIn", os |-> other.set])
    ELSE FALSE

\* ------------------------------------------------------------ package try
NoOp == [kind |-> "noop"]   \* func() {}

Success(value) == [either |-> Right(value), finallyFunction |-> NoOp]
Fail(err) == [either |-> Left(err), finallyFunction |-> NoOp]
\* variant: Pure with the test of err inverted
PureInverted(value, err) == IF err # Nil THEN Success(value) ELSE Fail(err)

Pure(value, err) == IF err = Nil THEN Success(value) ELSE Fail(err)

IsSuccess(try) == IsRight(try.either)
IsFail(try) == IsLeft(try.either)

RECURSIVE Call(_)

\* f(v) for a func(T) handed to either.ForEach: a caller's function, or the
\* literal func(ignored R) { try.finallyFunction() } of FlatMap
InvokeFinalizer(f, v) ==
    IF f.kind = "runPending" THEN Call(f.try.finallyFunction)
    ELSE <<[f |-> f, arg |-> v]>>

\* variant: ForEach without the IsRight test
ForEachUnguarded(either, f) == InvokeFinalizer(f, Get(either.Right))

ForEach(either, f) ==
    IF IsRight(either) THEN InvokeFinalizer(f, Get(either.Right)) ELSE <<>>

IfLeft(either, f) ==
    IF IsLeft(either) THEN InvokeFinalizer(f, Get(either.Left)) ELSE <<>>

BiForEach(either, fLeft, fRight) ==
    IF IsRight(either) THEN InvokeFinalizer(fRight, Get(either.Right))
    ELSE InvokeFinalizer(fLeft, Get(either.Left))

\* variant: End hands back its argument, finallyFunction included
EndKeepsFunction(try) ==
    [res |-> try, events |-> Call(try.finallyFunction)]

\* variant: End as a one-shot per Try value, a repeated End(t) runs nothing
EndOncePerValue(try) ==
    [res    |-> [either |-> try.either, finallyFunction |-> NoOp],
     events |-> IF last.op = "End" /\ last.try = try THEN <<>>
                ELSE Call(try.finallyFunction)]

\* variant: End calls finallyFunction a second time before it returns
EndCallsTwice(try) ==
    [res    |-> [either |-> try.either, finallyFunction |-> NoOp],
     events |-> Call(try.finallyFunction) \o Call(try.finallyFunction)]

\* variant: End builds the new Try without its either field, which is then
\* the zero value of Either (two zero Options, neither marked empty)
EndForgetsEither(try) ==
    [res    |-> [either |-> [Right |-> [value |-> Nil, isEmpty |-> FALSE],
                             Left  |-> [value |-> Nil, isEmpty |-> FALSE]],
                 finallyFunction |-> NoOp],
     events |-> Call(try.finallyFunction)]

End(try) ==
    [res    |-> [either |-> try.either, finallyFunction |-> NoOp],
     events |-> Call(try.finallyFunction)]

\* variant: the closure ends the original before it runs f
FinallyClosureEndFirst(try, f) == End(try).events \o ForEach(try.either, f)

\* body of the closure built by Finally
FinallyClosure(try, f) == ForEach(try.either, f) \o End(try).events

\* variant: the closure ends only the Try f returned
FlatMapClosureInnerOnly(r, try) == End(r).events

\* variant: the closure ends the original before the Try f returned
FlatMapClosureOuterFirst(r, try) == End(try).events \o End(r).events

\* body of the closure built by the success branch of FlatMap
FlatMapClosure(r, try) == End(r).events \o End(try).events

\* variant: the closure ends the original before the Try f returned
FlatMapFailClosureOuterFirst(r, try) == End(try).events \o End(r).events

\* body of the closure built by the failure branch of FlatMapFail
FlatMapFailClosure(r, try) == End(r).events \o End(try).events

Call(c) ==
    CASE c.kind = "noop"    -> <<>>
      [] c.kind = "finally" -> FinallyClosure(c.try, c.f)
      [] c.kind = "flatMap" -> FlatMapClosure(c.r, c.try)
      [] c.kind = "flatMapFail" -> FlatMapFailClosure(c.r, c.try)

\* variant: Finally runs f at registration
FinallyEager(try, f) ==
    [res    |-> [either |-> try.either,
                 finallyFunction |-> [kind |-> "finally", try |-> try, f |-> f]],
     events |-> ForEach(try.either, f)]

Finally(try, f) ==
    [res    |-> [either |-> try.either,
                 finallyFunction |-> [kind |-> "finally", try |-> try, f |-> f]],
     events |-> <<>>]

Fold(try, onFail, onSuccess) == EitherFold(try.either, onFail, onSuccess)

GetOrElse(try, defaultValue) == EitherGetOrElse(try.either, defaultValue)
TryForEach(try, f) == ForEach(try.either, f)
IfFail(try, f) == IfLeft(try.either, f)
TryBiForEach(try, fFail, fSuccess) == BiForEach(try.either, fFail, fSuccess)
ToOption(try) == EitherToOption(try.either)
ToEither(try) == try.either

\* method Equals of Try[T]: equal.Equals(ot.either, try.either)
Equals(try, other) ==
    IF other.type = "Try"
    THEN EitherEquals(other.try.either, [type |-> "Either", either |-> try.either])
    ELSE FALSE

\* f(v) for a bind callback: a caller's closure returning the Try ret, the
\* literal of Map (Success(f(t))) or the literal of MapLeft (Fail(f(e)))
InvokeBind(f, v) ==
    CASE f.kind = "const"     -> [res |-> f.ret, events |-> <<[f |-> f, arg |-> v]>>]
      [] f.kind = "successOf" -> [res |-> Success(ApplyFn(f.f, v)),
                                  events |-> <<[f |-> f.f, arg |-> v]>>]
      [] f.kind = "failOf"    -> [res |-> Fail(ApplyFn(f.f, v)),
                                  events |-> <<[f |-> f.f, arg |-> v]>>]

\* variant: Bind calls f once more when it builds the Try
BindCallsTwice(kind, try, f, v) ==
    LET o == InvokeBind(f, v)
        r == InvokeBind(f, v).res
    IN [res    |-> [either |-> r.either,
                    finallyFunction |-> [kind |-> kind, r |-> r, try |-> try]],
        events |-> o.events \o InvokeBind(f, v).events]

\* variant: when f returned a Failure, that Failure itself is returned
BindReturnsFailure(kind, try, f, v) ==
    LET o == InvokeBind(f, v)
        r == o.res
    IN IF IsFail(r) THEN o
       ELSE [res    |-> [either |-> r.either,
                         finallyFunction |-> [kind |-> kind, r |-> r, try |-> try]],
             events |-> o.events]

\* r := f(v), then the Try with the result of r and the closure of literal
\* kind over r and try
Bind(kind, try, f, v) ==
    LET o == InvokeBind(f, v)
        r == o.res
    IN [res    |-> [either |-> r.either,
                    finallyFunction |-> [kind |-> kind, r |-> r, try |-> try]],
        events |-> o.events]

FlatMap(try, f) ==
    Fold(try,
         Finally(Fail(Get(try.either.Left)), [kind |-> "runPending", try |-> try]),
         Bind("flatMap", try, f, Get(try.either.Right)))

\* variant: Map binds to the original value and never applies f
MapKeepsValue(try, f) == FlatMap(try, [kind |-> "const", ret |-> try])

Map(try, f) == FlatMap(try, [kind |-> "successOf", f |-> f])

\* variant: FlatMapFail binds on both branches
FlatMapFailBothBranches(try, f) ==
    Bind("flatMapFail", try, f,
         IF IsFail(try) THEN Get(try.either.Left) ELSE Get(try.either.Right))

FlatMapFail(try, f) ==
    Fold(try,
         Bind("flatMapFail", try, f, Get(try.either.Left)),
         [res |-> try, events |-> <<>>])

\* variant: on a Failure MapLeft returns the fresh Fail(f(e)) itself
MapLeftFreshFail(try, f) ==
    IF IsFail(try) THEN InvokeBind([kind |-> "failOf", f |-> f], Get(try.either.Left))
    ELSE [res |-> try, events |-> <<>>]

MapLeft(try, f) == FlatMapFail(try, [kind |-> "failOf", f |-> f])

\* ------------------------------------------------------------ the caller
RECURSIVE Closures(_)
\* number of closures built by Finally, FlatMap and FlatMapFail that a Try
\* carries, those of the Try values its closure captured included
Closures(try) ==
    LET c == try.finallyFunction
    IN CASE c.kind = "noop"    -> 0
         [] c.kind = "finally" ->
              1 + Closures(c.try)
                + (IF c.f.kind = "runPending" THEN Closures(c.f.try) ELSE 0)
         [] c.kind \in {"flatMap", "flatMapFail"} ->
              1 + Closures(c.r) + Closures(c.try)

RECURSIVE SumClosures(_)
SumClosures(S) ==
    IF S = {} THEN 0
    ELSE LET t == CHOOSE x \in S : TRUE IN Closures(t) + SumClosures(S \ {t})

NoTry == Success(Nil)
\* For an End call, again says that the call before it was End on the same
\* Try value, onResult that the call before it was the End call that
\* returned this argument, and before holds the events of that call.
\* For a call on an Either or an Option, either / option is the receiver;
\* other is the interface{} argument of Equals, value the argument of type
\* T (of a constructor, or the defaultValue of GetOrElse), err the error
\* argument, g the second callback, and ret what the call returned when
\* that is not a Try (panic: the call panicked instead of returning).
\* For a call on a List or a Set, values is the slice argument and set the
\* receiver; stack holds the activations of Append that have not returned.
NoEither == Right(Nil)
NoSet == SetPureList(ListEmpty)
NoOther ==
    [type |-> "none", option |-> OptionEmpty, either |-> NoEither, try |-> NoTry,
     set |-> NoSet]
NoRet ==
    [value |-> Nil, bool |-> FALSE, option |-> OptionEmpty, either |-> NoEither,
     panic |-> FALSE, set |-> NoSet]
NoCall ==
    [op |-> "none", try |-> NoTry, f |-> NoFn, res |-> NoTry, events |-> <<>>,
     again |-> FALSE, onResult |-> FALSE, before |-> <<>>,
     either |-> NoEither, option |-> OptionEmpty, other |-> NoOther,
     value |-> Nil, err |-> Nil, g |-> NoFn, ret |-> NoRet,
     values |-> <<>>, set |-> NoSet, stack |-> <<>>]

Init == pool = {} /\ last = NoCall

Fits(held) == Cardinality(held) <= MaxHeld /\ SumClosures(held) <= MaxClosures

\* A call is made either by the caller of Spec, who keeps what fits in its
\* variables, or as the one derivation of SpecApply, which keeps the result
Admits(scope, kept, res) ==
    IF scope = "caller" THEN Fits(kept \cup {res})
    ELSE last.op = "none" /\ kept = {}

\* the call returns out.res, which the caller stores in a variable; kept are
\* the variables whose value it still holds afterwards
Returns(scope, op, try, f, out, kept) ==
    /\ Admits(scope, kept, out.res)
    /\ pool' = kept \cup {out.res}
    /\ last' = [NoCall EXCEPT !.op = op, !.try = try, !.f = f,
                              !.res = out.res, !.events = out.events]

Kept(scope, try) == IF scope = "caller" THEN {pool, pool \ {try}} ELSE {{}}

\* a constructor called with value and err returns t
Construct(scope, op, value, err, t) ==
    \E kept \in Kept(scope, t) :
        /\ Admits(scope, kept, t)
        /\ pool' = kept \cup {t}
        /\ last' = [NoCall EXCEPT !.op = op, !.value = value, !.err = err, !.res = t]

CallSuccess(scope) == \E v \in Vals : Construct(scope, "Success", v, Nil, Success(v))
CallFail(scope) == \E e \in Errs : Construct(scope, "Fail", Nil, e, Fail(e))
CallPure(scope) ==
    \E v \in Vals \cup {Nil}, e \in Errs \cup {Nil} :
        Construct(scope, "Pure", v, e, Pure(v, e))

DoSuccess == CallSuccess("caller")
DoFail == CallFail("caller")
DoPure == CallPure("caller")
\* bind callbacks: closures that return a Try the caller built before
BindFns == {[kind |-> "const", ret |-> r] : r \in pool}
KeptBind(scope, try, f) == Kept(scope, try) \cup {pool \ {try, f.ret}}

CallFinally(scope) ==
    \E try \in pool, f \in FinFns : \E kept \in Kept(scope, try) :
        Returns(scope, "Finally", try, f, Finally(try, f), kept)
CallFlatMap(scope) ==
    \E try \in pool, f \in BindFns : \E kept \in KeptBind(scope, try, f) :
        Returns(scope, "FlatMap", try, f, FlatMap(try, f), kept)
CallMap(scope) ==
    \E try \in pool : \E kept \in Kept(scope, try) :
        Returns(scope, "Map", try, IncFn, Map(try, IncFn), kept)
CallFlatMapFail(scope) ==
    \E try \in pool, f \in BindFns : \E kept \in KeptBind(scope, try, f) :
        Returns(scope, "FlatMapFail", try, f, FlatMapFail(try, f), kept)
CallMapLeft(scope) ==
    \E try \in pool : \E kept \in Kept(scope, try) :
        Returns(scope, "MapLeft", try, WrapFn, MapLeft(try, WrapFn), kept)

DoFinally == CallFinally("caller")
DoFlatMap == CallFlatMap("caller")
DoMap == CallMap("caller")
DoFlatMapFail == CallFlatMapFail("caller")
DoMapLeft == CallMapLeft("caller")

\* End closes a chain: the caller ends a Try it holds, or ends again the Try
\* that the End call before returned.  The caller of Spec goes on with its
\* other variables; in SpecApply only the ended Try may be ended once more.
KeptEnd(scope, try) ==
    IF scope = "caller" THEN {pool, pool \ {try}} ELSE {pool \cap {try}, {}}

CallEnd(scope) ==
    \E try \in pool \cup (IF last.op = "End" THEN {last.res} ELSE {}) :
    \E kept \in KeptEnd(scope, try) :
        LET out == End(try)
        IN /\ pool' = kept
           /\ last' = [NoCall EXCEPT
                       !.op = "End", !.try = try,
                       !.res = out.res, !.events = out.events,
                       !.again = last.op = "End" /\ last.try = try,
                       !.onResult = last.op = "End" /\ last.res = try,
                       !.before = IF last.op = "End" THEN last.events ELSE <<>>]

DoEnd == CallEnd("caller")

\* ------------------------------------------- calls that return no Try
\* func(T) and func(error) passed to ForEach, IfFail and BiForEach
OnFail    == [kind |-> "visitor", id |-> "onFail"]
OnSuccess == [kind |-> "visitor", id |-> "onSuccess"]
\* f(v) for a func(T) R passed to Fold
InvokeFn(f, v) == [value |-> ApplyFn(f, v), events |-> <<[f |-> f, arg |-> v]>>]

Defaults == Vals \cup {Nil}

\* the Either and Option values the caller gets out of the Try values it
\* holds: ToEither(t), and the exported fields Right and Left of an Either
Eithers == {ToEither(t) : t \in pool}
RightOptions == {e.Right : e \in Eithers}
LeftOptions == {e.Left : e \in Eithers}

\* interface{} arguments: a value of the receiver's type, or of another type
AsOption(o) == [NoOther EXCEPT !.type = "Option", !.option = o]
AsEither(e) == [NoOther EXCEPT !.type = "Either", !.either = e]
AsTry(t) == [NoOther EXCEPT !.type = "Try", !.try = t]
OtherTyped == {[NoOther EXCEPT !.type = "Option[error]", !.option = o] : o \in LeftOptions}

\* the call returns to the caller, who holds what it held; a derivation of
\* inputs is over after its one call
Observes(scope, call) ==
    /\ scope = "caller" \/ last.op = "none"
    /\ pool' = IF scope = "caller" THEN pool ELSE {}
    /\ last' = call

CallFold(scope) ==
    \E try \in pool :
        LET out == Fold(try, InvokeFn(WrapFn, Get(try.either.Left)),
                             InvokeFn(IncFn, Get(try.either.Right)))
        IN Observes(scope, [NoCall EXCEPT !.op = "Fold", !.try = try,
                                !.f = WrapFn, !.g = IncFn,
                                !.ret.value = out.value, !.events = out.events])
CallForEach(scope) ==
    \E try \in pool :
        Observes(scope, [NoCall EXCEPT !.op = "ForEach", !.try = try, !.f = OnSuccess,
                             !.events = TryForEach(try, OnSuccess)])
CallIfFail(scope) ==
    \E try \in pool :
        Observes(scope, [NoCall EXCEPT !.op = "IfFail", !.try = try, !.f = OnFail,
                             !.events = IfFail(try, OnFail)])
CallBiForEach(scope) ==
    \E try \in pool :
        Observes(scope, [NoCall EXCEPT !.op = "BiForEach", !.try = try,
                             !.f = OnFail, !.g = OnSuccess,
                             !.events = TryBiForEach(try, OnFail, OnSuccess)])
CallGetOrElse(scope) ==
    \E try \in pool, d \in Defaults :
        Observes(scope, [NoCall EXCEPT !.op = "GetOrElse", !.try = try, !.value = d,
                             !.ret.value = GetOrElse(try, d)])
CallToOption(scope) ==
    \E try \in pool :
        Observes(scope, [NoCall EXCEPT !.op = "ToOption", !.try = try,
                             !.ret.option = ToOption(try)])
CallToEither(scope) ==
    \E try \in pool :
        Observes(scope, [NoCall EXCEPT !.op = "ToEither", !.try = try,
                             !.ret.either = ToEither(try)])
CallEquals(scope) ==
    \E try \in pool :
    \E other \in {AsTry(t) : t \in pool} \cup {AsEither(e) : e \in Eithers} :
        Observes(scope, [NoCall EXCEPT !.op = "Equals", !.try = try, !.other = other,
                             !.ret.bool = Equals(try, other)])

\* ------------------------------------------ calls on Either and Option
\* callbacks of either.FlatMap and either.FlatMapLeft: closures that return
\* an Either the caller holds
EitherFns == {[kind |-> "constEither", ret |-> e] : e \in Eithers}

\* a call on the Either either that returned the Either out.res
EitherReturns(scope, op, either, f, out) ==
    Observes(scope, [NoCall EXCEPT !.op = op, !.either = either, !.f = f,
                         !.ret.either = out.res, !.events = out.events])

CallRight(scope) ==
    \E r \in Vals :
        Observes(scope, [NoCall EXCEPT !.op = "Right", !.value = r,
                             !.ret.either = Right(r)])
CallLeft(scope) ==
    \E l \in Errs :
        Observes(scope, [NoCall EXCEPT !.op = "Left", !.value = l,
                             !.ret.either = Left(l)])
CallEitherMap(scope) ==
    \E either \in Eithers :
        EitherReturns(scope, "Either.Map", either, IncFn, EitherMap(either, IncFn))
CallEitherFlatMap(scope) ==
    \E either \in Eithers, f \in EitherFns :
        EitherReturns(scope, "Either.FlatMap", either, f, EitherFlatMap(either, f))
CallEitherMapLeft(scope) ==
    \E either \in Eithers :
        EitherReturns(scope, "Either.MapLeft", either, WrapFn, EitherMapLeft(either, WrapFn))
CallEitherFlatMapLeft(scope) ==
    \E either \in Eithers, f \in EitherFns :
        EitherReturns(scope, "Either.FlatMapLeft", either, f, EitherFlatMapLeft(either, f))
CallEitherGetOrElse(scope) ==
    \E either \in Eithers, d \in Defaults :
        Observes(scope, [NoCall EXCEPT !.op = "Either.GetOrElse", !.either = either,
                             !.value = d, !.ret.value = EitherGetOrElse(either, d)])
CallEitherEquals(scope) ==
    \E either \in Eithers :
    \E other \in {AsEither(e) : e \in Eithers} \cup {AsTry(t) : t \in pool} :
        Observes(scope, [NoCall EXCEPT !.op = "Either.Equals", !.either = either,
                             !.other = other, !.ret.bool = EitherEquals(either, other)])
CallOptionGet(scope) ==
    \E opt \in RightOptions :
        LET out == OptionGet(opt)
        IN Observes(scope, [NoCall EXCEPT !.op = "Option.Get", !.option = opt,
                                !.ret.value = out.value, !.ret.panic = out.panic])
CallOptionGetOrElse(scope) ==
    \E opt \in RightOptions, d \in Defaults :
        Observes(scope, [NoCall EXCEPT !.op = "Option.GetOrElse", !.option = opt,
                             !.value = d, !.ret.value = OptionGetOrElse(opt, d)])
CallOptionEquals(scope) ==
    \E opt \in RightOptions :
    \E other \in {AsOption(o) : o \in RightOptions} \cup OtherTyped
                   \cup {AsEither(e) : e \in Eithers} :
        Observes(scope, [NoCall EXCEPT !.op = "Option.Equals", !.option = opt,
                             !.other = other, !.ret.bool = OptionEquals(opt, other)])

\* ------------------------------------------------ calls on List and Set
\* func(R, T) R passed to Fold by the caller
FoldFns == {[kind |-> "sum"], [kind |-> "digits"]}

AsSet(set) == [NoOther EXCEPT !.type = "Set", !.set = set]

CallListFold(scope) ==
    \E values \in pool, root \in Defaults, f \in FoldFns :
        Observes(scope, [NoCall EXCEPT !.op = "List.Fold", !.values = values,
                             !.value = root, !.f = f,
                             !.ret.value = ListFold(ListPure(values), root, f)])
CallSetPure(scope) ==
    \E values \in pool :
        Observes(scope, [NoCall EXCEPT !.op = "Set.Pure", !.values = values,
                             !.ret.set = SetPure(values)])
CallSetOf(scope) ==
    \E values \in pool :
        Observes(scope, [NoCall EXCEPT !.op = "Set.Of", !.values = values,
                             !.ret.set = SetOf(values)])
CallSetEquals(scope) ==
    \E a \in pool, b \in pool :
    \E other \in {AsSet(SetOf(b)), AsOption(OptionEmpty)} :
        Observes(scope, [NoCall EXCEPT !.op = "Set.Equals", !.set = SetOf(a),
                             !.other = other,
                             !.ret.bool = SetEquals(SetOf(a), other)])

\* Append(set, values...): the activation of Append with the loop of Fold
\* that runs in it, result and i being the local variables of Fold
Activation(set, values) == [result |-> set, values |-> values, i |-> 0]

CallSetAppend(scope) ==
    \E a \in pool, values \in pool :
        Observes(scope, [NoCall EXCEPT !.op = "Set.Append", !.set = SetOf(a),
                             !.values = values,
                             !.stack = <<Activation(SetOf(a), values)>>])

\* one iteration of the loop in the innermost activation: the callback
\* returns result when it contains the value, and otherwise calls
\* result.Append(value), the method, which calls Append(result, value)
AppendIterate ==
    LET n == Len(last.stack)
        top == last.stack[n]
        value == top.values[top.i + 1]
    IN /\ last.stack # <<>>
       /\ top.i < FoldBound(top.values)
       /\ IF ListContains(top.result.list, value)
          THEN last' = [last EXCEPT !.stack[n].i = top.i + 1]
          ELSE /\ n < MaxStack
               /\ last' = [last EXCEPT
                             !.stack = Append(last.stack, Activation(top.result, <<value>>))]
       /\ UNCHANGED pool

\* the loop of the innermost activation is over: Fold and Append return
\* result, to the callback of the activation below, which returns it to
\* its loop, or to the caller
AppendReturn ==
    LET n == Len(last.stack)
        top == last.stack[n]
    IN /\ last.stack # <<>>
       /\ ~(top.i < FoldBound(top.values))
       /\ IF n = 1
          THEN last' = [last EXCEPT !.stack = <<>>, !.ret.set = top.result]
          ELSE last' = [last EXCEPT
                          !.stack = [SubSeq(last.stack, 1, n - 1) EXCEPT
                                       ![n - 1].result = top.result,
                                       ![n - 1].i = last.stack[n - 1].i + 1]]
       /\ UNCHANGED pool

Next ==
    \/ DoSuccess
    \/ DoFail
    \/ DoPure
    \/ DoFinally
    \/ DoEnd
    \/ DoFlatMap
    \/ DoMap
    \/ DoFlatMapFail
    \/ DoMapLeft

Spec == Init /\ [][Next]_vars

\* ------------------------------------------------- derivations of inputs
\* SpecApply: the Try operations as functions of their inputs.  The inputs
\* are every Try that two rounds of operations build from the constructors
\* (try) and every Try that one round builds (the Try a callback returns);
\* one derivation is applied to them and its result is ended.
Derived(S) ==
    S \cup {Finally(t, f).res : t \in S, f \in FinFns}
      \cup {FlatMap(t, [kind |-> "const", ret |-> r]).res : t \in S, r \in S}
      \cup {FlatMapFail(t, [kind |-> "const", ret |-> r]).res : t \in S, r \in S}
      \cup {Map(t, IncFn).res : t \in S}
      \cup {MapLeft(t, WrapFn).res : t \in S}

Tries0 == {Success(v) : v \in Vals} \cup {Fail(e) : e \in Errs}
Tries1 == Derived(Tries0)
Tries2 == Derived(Tries1)

InitApply == last = NoCall /\ pool \in {{t, r} : t \in Tries2, r \in Tries1}

ApplySuccess == CallSuccess("apply")
ApplyFail == CallFail("apply")
ApplyPure == CallPure("apply")
ApplyFinally == CallFinally("apply")
ApplyFlatMap == CallFlatMap("apply")
ApplyMap == CallMap("apply")
ApplyFlatMapFail == CallFlatMapFail("apply")
ApplyMapLeft == CallMapLeft("apply")
ApplyEnd == CallEnd("apply")

NextApply ==
    \/ ApplySuccess
    \/ ApplyFail
    \/ ApplyPure
    \/ ApplyFinally
    \/ ApplyFlatMap
    \/ ApplyMap
    \/ ApplyFlatMapFail
    \/ ApplyMapLeft
    \/ ApplyEnd

SpecApply == InitApply /\ [][NextApply]_vars

\* SpecObserve: the accessors, conversions and comparisons of Try, Either
\* and Option as functions of their inputs.  The inputs are two Try values
\* that one round of operations builds from the constructors.
InitObserve == last = NoCall /\ pool \in {{t, r} : t \in Tries1, r \in Tries1}

ObserveFold == CallFold("apply")
ObserveForEach == CallForEach("apply")
ObserveIfFail == CallIfFail("apply")
ObserveBiForEach == CallBiForEach("apply")
ObserveGetOrElse == CallGetOrElse("apply")
ObserveToOption == CallToOption("apply")
ObserveToEither == CallToEither("apply")
ObserveEquals == CallEquals("apply")
ObserveRight == CallRight("apply")
ObserveLeft == CallLeft("apply")
ObserveEitherMap == CallEitherMap("apply")
ObserveEitherFlatMap == CallEitherFlatMap("apply")
ObserveEitherMapLeft == CallEitherMapLeft("apply")
ObserveEitherFlatMapLeft == CallEitherFlatMapLeft("apply")
ObserveEitherGetOrElse == CallEitherGetOrElse("apply")
ObserveEitherEquals == CallEitherEquals("apply")
ObserveOptionGet == CallOptionGet("apply")
ObserveOptionGetOrElse == CallOptionGetOrElse("apply")
ObserveOptionEquals == CallOptionEquals("apply")

NextObserve ==
    \/ NextApply
    \/ ObserveFold
    \/ ObserveForEach
    \/ ObserveIfFail
    \/ ObserveBiForEach
    \/ ObserveGetOrElse
    \/ ObserveToOption
    \/ ObserveToEither
    \/ ObserveEquals
    \/ ObserveRight
    \/ ObserveLeft
    \/ ObserveEitherMap
    \/ ObserveEitherFlatMap
    \/ ObserveEitherMapLeft
    \/ ObserveEitherFlatMapLeft
    \/ ObserveEitherGetOrElse
    \/ ObserveEitherEquals
    \/ ObserveOptionGet
    \/ ObserveOptionGetOrElse
    \/ ObserveOptionEquals

SpecObserve == InitObserve /\ [][NextObserve]_vars

\* SpecSet: the functions of the packages list and set applied to slices;
\* pool holds the two slices the caller passes.
RECURSIVE SlicesOf(_)
SlicesOf(n) ==
    IF n = 0 THEN {<<>>}
    ELSE LET S == SlicesOf(n - 1)
         IN S \cup {Append(values, x) : values \in S, x \in 1..MaxElem}
Slices == SlicesOf(MaxLen)

InitSet == last = NoCall /\ pool \in {{a, b} : a \in Slices, b \in Slices}

ApplyListFold == CallListFold("apply")
ApplySetPure == CallSetPure("apply")
ApplySetOf == CallSetOf("apply")
ApplySetEquals == CallSetEquals("apply")
ApplySetAppend == CallSetAppend("apply")

NextSet ==
    \/ ApplyListFold
    \/ ApplySetPure
    \/ ApplySetOf
    \/ ApplySetEquals
    \/ ApplySetAppend
    \/ AppendIterate
    \/ AppendReturn

SpecSet == InitSet /\ [][NextSet]_vars
\* the runtime goes on executing a call that has not returned
SpecSetFair == SpecSet /\ WF_vars(AppendIterate) /\ WF_vars(AppendReturn)

\* ----------------------------------------------------------------- claims
Closure(try) == try.finallyFunction
Value(try) == Get(try.either.Right)
Ended == last.op = "End"
Arg == last.try

\* a Success with a stack of Finally registrations of caller functions
RECURSIVE IsStack(_)
IsStack(try) ==
    /\ IsSuccess(try)
    /\ \/ Closure(try) = NoOp
       \/ /\ Closure(try).kind = "finally"
          /\ Closure(try).f.kind = "user"
          /\ IsStack(Closure(try).try)

\* the registrations of a stack, last registered first
RECURSIVE Registered(_)
Registered(try) ==
    IF Closure(try) = NoOp THEN <<>>
    ELSE <<[f |-> Closure(try).f, arg |-> Value(try)]>> \o Registered(Closure(try).try)

\* the Try was built by the success branch of FlatMap / by the failure
\* branch of FlatMapFail / by the failure branch of FlatMap
IsSuccessBind(try) == Closure(try).kind = "flatMap"
IsFailBind(try) == Closure(try).kind = "flatMapFail"
\* a Failure whose pending action is a stack: FlatMap of a stack with an f
\* that returned a fresh Failure
IsFailedStack(try) ==
    /\ IsSuccessBind(try)
    /\ IsFail(Closure(try).r) /\ Closure(Closure(try).r) = NoOp
    /\ IsStack(Closure(try).try)
IsFailurePropagation(try) ==
    Closure(try).kind = "finally" /\ Closure(try).f.kind = "runPending"

FinalizerEvents(events) == {i \in 1..Len(events) : events[i].f.kind = "user"}

\* C1: End on a stack of Finally registrations over a Success(v) invokes the
\* registered functions on v, last registered first, each exactly once.
C1_FinalizerLIFO ==
    (Ended /\ IsStack(Arg)) => last.events = Registered(Arg)

C1_Witness ==
    /\ Ended /\ IsStack(Arg)
    /\ Len(last.events) = 2
    /\ last.events[1].f = Closure(Arg).f
    /\ last.events[1].f # last.events[2].f

\* C2: FlatMap on a Failure discharges the original's cleanup: End on
\* FlatMap(t, f) for a Failure t runs the pending action of t exactly once.
C2_FailurePathDischarges ==
    (Ended /\ IsFailurePropagation(Arg))
        => last.events = End(Closure(Arg).f.try).events

\* C3: FlatMap on a Success carries the result of r = f(v), and End on it
\* runs the pending action of r first and the pending action of t afterwards;
\* for stacks r and t these are the registrations of r, then those of t.
C3_SuccessBindInnerFirst ==
    /\ (last.op = "FlatMap" /\ IsSuccess(Arg))
          => /\ last.res.either = last.f.ret.either
             /\ last.events = <<[f |-> last.f, arg |-> Value(Arg)]>>
    /\ (Ended /\ IsSuccessBind(Arg))
          => LET r == Closure(Arg).r
                 t == Closure(Arg).try
             IN /\ IsSuccess(t)
                /\ last.events = End(r).events \o End(t).events
                /\ (IsStack(r) /\ IsStack(t))
                      => last.events = Registered(r) \o Registered(t)

C3_Witness ==
    /\ Ended /\ IsSuccessBind(Arg)
    /\ IsStack(Closure(Arg).r) /\ IsStack(Closure(Arg).try)
    /\ Closure(Closure(Arg).r) # NoOp /\ Closure(Closure(Arg).try) # NoOp
    /\ Len(last.events) = 2
    /\ last.events[1] = [f |-> Closure(Closure(Arg).r).f, arg |-> Value(Closure(Arg).r)]
    /\ last.events[2] = [f |-> Closure(Closure(Arg).try).f, arg |-> Value(Closure(Arg).try)]
    /\ last.events[1].f # last.events[2].f

\* C4: FlatMapFail on a Failure(err) carries the result of r = f(err), and
\* End on it runs the pending action of r first and the pending action of t
\* afterwards, each once.
C4_FailureBindInnerFirst ==
    /\ (last.op = "FlatMapFail" /\ IsFail(Arg))
          => /\ last.res.either = last.f.ret.either
             /\ last.events = <<[f |-> last.f, arg |-> Get(Arg.either.Left)]>>
    /\ (Ended /\ IsFailBind(Arg))
          => LET r == Closure(Arg).r
                 t == Closure(Arg).try
             IN /\ IsFail(t)
                /\ last.events = End(r).events \o End(t).events
                /\ (IsStack(r) /\ IsFailedStack(t))
                      => last.events = Registered(r) \o Registered(Closure(t).try)

C4_Witness ==
    /\ Ended /\ IsFailBind(Arg)
    /\ IsStack(Closure(Arg).r) /\ IsFailedStack(Closure(Arg).try)
    /\ Len(last.events) = 2
    /\ last.events[1] = [f |-> Closure(Closure(Arg).r).f, arg |-> Value(Closure(Arg).r)]
    /\ last.events[1].f # last.events[2].f

\* C5: FlatMapFail on a Success returns its argument, value and pending
\* action unchanged, and invokes neither f nor any finalizer.
C5_FlatMapFailIdentity ==
    (last.op = "FlatMapFail" /\ IsSuccess(Arg))
        => last.res = Arg /\ last.events = <<>>

C5_Witness ==
    /\ last.op = "FlatMapFail" /\ IsSuccess(Arg)
    /\ End(Arg).events # <<>>
    /\ End(last.f.ret).events # <<>>

\* C6: the Try returned by End has the no-op pending action, and End on it
\* runs no caller-supplied function.
C6_EndedIsNoOp ==
    Ended => /\ Closure(last.res) = NoOp
             /\ last.onResult => last.events = <<>>

C6_Witness == Ended /\ last.onResult /\ last.before # <<>>

\* C7 as claimed: a second End on the same Try value t does not run the
\* finalizer again.
C7_SecondEndRunsNothing ==
    (Ended /\ last.again) => last.events = <<>>

\* C7 amended: a second End on the same Try value t runs the pending action
\* of t again, invoking the same functions as the first End did.
C7_SecondEndRunsAgain ==
    (Ended /\ last.again) => last.events = last.before

C7_Witness == Ended /\ last.again /\ FinalizerEvents(last.events) # {}

\* C8: no call other than End invokes a function registered with Finally.
C8_OnlyEndRunsFinalizers ==
    ~Ended => FinalizerEvents(last.events) = {}

C8_Witness ==
    /\ last.op \in {"Finally", "FlatMap", "Map", "FlatMapFail", "MapLeft"}
    /\ End(Arg).events # <<>>
    /\ FinalizerEvents(End(last.res).events) # {}

\* C9: for a Failure t, Finally(t, f) has the error of t, and End on it
\* does not invoke f and runs the pending action of t exactly once.
C9_FinallyOnFailure ==
    /\ (last.op = "Finally" /\ IsFail(Arg))
          => last.res.either = Arg.either /\ IsFail(last.res)
    /\ (Ended /\ Closure(Arg).kind = "finally" /\ Closure(Arg).f.kind = "user"
              /\ IsFail(Closure(Arg).try))
          => last.events = End(Closure(Arg).try).events

C9_Witness ==
    /\ Ended /\ Closure(Arg).kind = "finally" /\ Closure(Arg).f.kind = "user"
    /\ IsFail(Closure(Arg).try)
    /\ last.events # <<>>

\* C10: Map(Success(v), f) is Success(f(v)) with f invoked once on v;
\* Map(Fail(e), f) is Failure(e) and f is not invoked.
C10_MapLaws ==
    last.op = "Map"
        => IF IsSuccess(Arg)
           THEN /\ last.res.either = Right(ApplyFn(last.f, Value(Arg)))
                /\ last.events = <<[f |-> last.f, arg |-> Value(Arg)]>>
           ELSE /\ last.res.either = Arg.either
                /\ IsFail(last.res)
                /\ last.events = <<>>

C10_Witness ==
    /\ last.op = "Map" /\ IsSuccess(Arg) /\ Closure(Arg) # NoOp
    /\ Value(last.res) # Value(Arg)

\* a Failure bound by FlatMapFail to a fresh Fail, as MapLeft binds it
IsMappedFailure(try) ==
    /\ IsFailBind(try)
    /\ IsFail(Closure(try).r) /\ Closure(Closure(try).r) = NoOp

\* C11: MapLeft on a Failure(e) invokes f once on e and returns Failure(f(e)),
\* and End on that runs the pending action of t exactly once; MapLeft on a
\* Success returns it with value and pending action unchanged, f not invoked.
C11_MapLeftLaws ==
    /\ last.op = "MapLeft"
          => IF IsFail(Arg)
             THEN /\ last.res.either = Left(ApplyFn(last.f, Get(Arg.either.Left)))
                  /\ last.events = <<[f |-> last.f, arg |-> Get(Arg.either.Left)]>>
                  /\ IsMappedFailure(last.res)
                  /\ Closure(last.res).try = Arg
             ELSE /\ last.res = Arg
                  /\ last.events = <<>>
    /\ (Ended /\ IsMappedFailure(Arg))
          => /\ last.events = End(Closure(Arg).try).events
             /\ IsFailedStack(Closure(Arg).try)
                   => last.events = Registered(Closure(Closure(Arg).try).try)

C11_Witness ==
    /\ Ended /\ IsMappedFailure(Arg)
    /\ IsFailedStack(Closure(Arg).try)
    /\ Get(Arg.either.Left) = ApplyFn(WrapFn, Get(Closure(Arg).try.either.Left))
    /\ FinalizerEvents(last.events) # {}

\* C12: End(t) returns a Try on the branch of t with the value or error of
\* t; t itself is not changed: the caller still holds it with its result and
\* its pending action, and ending it once more runs that same action.
C12_EndPreservesResult ==
    Ended => /\ last.res.either = Arg.either
             /\ IsSuccess(last.res) = IsSuccess(Arg)
             /\ IsFail(last.res) = IsFail(Arg)
             /\ last.again => last.events = last.before
             /\ last.onResult => last.res = Arg

C12_Witness ==
    /\ Ended /\ last.again /\ Arg \in pool
    /\ IsFail(Arg) /\ Closure(Arg) # NoOp
    /\ Closure(last.res) # Closure(Arg)
    /\ last.events # <<>>

ExactlyOne(either) ==
    /\ IsPresent(either.Left) # IsPresent(either.Right)
    /\ IsLeft(either) # IsRight(either)

\* C13: every Either returned by Left, Right, Map, FlatMap, MapLeft and
\* FlatMapLeft, and every Either held by a Try that the constructors and
\* the Try operations built, has exactly one of its two options present:
\* IsLeft and IsRight are never both true and never both false.
C13_EitherExactlyOne ==
    /\ \A t \in pool : ExactlyOne(ToEither(t))
    /\ ExactlyOne(ToEither(last.res))
    /\ ExactlyOne(last.ret.either)
    /\ ExactlyOne(last.either)

C13_Witness ==
    /\ last.op = "Either.FlatMapLeft"
    /\ IsLeft(last.either) /\ IsRight(last.ret.either)
    /\ IsEmpty(last.ret.either.Left) /\ IsPresent(last.either.Left)

\* C14 as claimed: Get on an empty Option fails with an explicit empty-value
\* error instead of returning a value.
C14_GetOnEmptyFails ==
    (last.op = "Option.Get" /\ IsEmpty(last.option)) => last.ret.panic

\* C14 amended: Get does not check for emptiness; on an empty Option it
\* returns the stored value, the zero value of T, and does not fail.
C14_GetOnEmptyReturnsZero ==
    last.op = "Option.Get"
        => /\ ~last.ret.panic
           /\ last.ret.value = last.option.value
           /\ IsEmpty(last.option) => last.ret.value = Nil

C14_Witness ==
    /\ last.op = "Option.Get" /\ IsEmpty(last.option)
    /\ last.ret.value = Nil /\ ~last.ret.panic

Error(try) == Get(try.either.Left)
Invoked(f, v) == <<[f |-> f, arg |-> v]>>

\* C15: Fold on a Success(v) returns onSuccess(v) and invokes only
\* onSuccess, once; on a Fail(e) it returns onFail(e) and invokes only
\* onFail, once.  ForEach, IfFail and BiForEach invoke the callback of the
\* populated branch exactly once and no other.
C15_FoldBranchExclusive ==
    /\ last.op = "Fold"
          => IF IsSuccess(Arg)
             THEN /\ last.ret.value = ApplyFn(last.g, Value(Arg))
                  /\ last.events = Invoked(last.g, Value(Arg))
             ELSE /\ last.ret.value = ApplyFn(last.f, Error(Arg))
                  /\ last.events = Invoked(last.f, Error(Arg))
    /\ last.op = "ForEach"
          => last.events = IF IsSuccess(Arg) THEN Invoked(last.f, Value(Arg)) ELSE <<>>
    /\ last.op = "IfFail"
          => last.events = IF IsFail(Arg) THEN Invoked(last.f, Error(Arg)) ELSE <<>>
    /\ last.op = "BiForEach"
          => last.events = IF IsSuccess(Arg) THEN Invoked(last.g, Value(Arg))
                           ELSE Invoked(last.f, Error(Arg))

C15_Witness ==
    /\ last.op = "Fold" /\ IsFail(Arg) /\ Closure(Arg) # NoOp
    /\ last.f # last.g
    /\ last.events = Invoked(last.f, Error(Arg))
    /\ last.ret.value # ApplyFn(last.g, Value(Arg))

Constructed == last.op \in {"Success", "Fail", "Pure"}

\* C16: Pure(v, err) is a Failure carrying err when err is not nil and a
\* Success carrying v when it is nil; Success(v) is a Success of v and
\* Fail(e) a Failure of e; IsSuccess and IsFail exclude each other on every
\* Try; a constructed Try has the no-op pending action, and End on such a
\* Try invokes nothing.
C16_Construction ==
    /\ last.op = "Pure"
          => IF last.err # Nil
             THEN IsFail(last.res) /\ last.res.either = Left(last.err)
             ELSE IsSuccess(last.res) /\ last.res.either = Right(last.value)
    /\ last.op = "Success"
          => IsSuccess(last.res) /\ last.res.either = Right(last.value)
    /\ last.op = "Fail"
          => IsFail(last.res) /\ last.res.either = Left(last.err)
    /\ \A t \in pool \cup {last.res, last.try} : IsSuccess(t) # IsFail(t)
    /\ Constructed => Closure(last.res) = NoOp /\ last.events = <<>>
    /\ (Ended /\ Arg \in {Pure(v, e) : v \in Vals \cup {Nil}, e \in Errs \cup {Nil}})
          => last.events = <<>>

C16_Witness ==
    /\ last.op = "Pure" /\ last.err # Nil /\ last.value # Nil
    /\ IsFail(last.res) /\ Error(last.res) = last.err
    /\ End(last.res).events = <<>>

\* C17: ToEither of a Success(v) is a Right holding v and ToOption of it is
\* present with Get() = v; ToEither of a Fail(e) is a Left holding e and
\* ToOption of it is empty; neither call invokes any function of the
\* pending action.
C17_Conversions ==
    /\ last.op = "ToEither"
          => /\ IF IsSuccess(Arg)
                THEN /\ IsRight(last.ret.either) /\ ~IsLeft(last.ret.either)
                     /\ Get(last.ret.either.Right) = Value(Arg)
                ELSE /\ IsLeft(last.ret.either) /\ ~IsRight(last.ret.either)
                     /\ Get(last.ret.either.Left) = Error(Arg)
             /\ last.events = <<>>
    /\ last.op = "ToOption"
          => /\ IF IsSuccess(Arg)
                THEN /\ IsPresent(last.ret.option)
                     /\ OptionGet(last.ret.option).value = Value(Arg)
                ELSE IsEmpty(last.ret.option)
             /\ last.events = <<>>

C17_Witness ==
    /\ last.op = "ToOption" /\ IsSuccess(Arg)
    /\ IsPresent(last.ret.option) /\ Get(last.ret.option) = Value(Arg)
    /\ FinalizerEvents(End(Arg).events) # {}

\* C18: GetOrElse returns the supplied default, whatever it is, on an empty
\* Option, a Left Either and a Failure Try, and the wrapped value, whatever
\* the default, on a present Option, a Right Either and a Success Try.
C18_GetOrElseTotal ==
    /\ last.op = "Option.GetOrElse"
          => last.ret.value = IF IsEmpty(last.option) THEN last.value
                              ELSE last.option.value
    /\ last.op = "Either.GetOrElse"
          => last.ret.value = IF IsLeft(last.either) THEN last.value
                              ELSE last.either.Right.value
    /\ last.op = "GetOrElse"
          => last.ret.value = IF IsFail(Arg) THEN last.value ELSE Value(Arg)

C18_Witness ==
    /\ last.op = "GetOrElse" /\ IsFail(Arg)
    /\ last.value # Arg.either.Right.value
    /\ last.ret.value = last.value

SameOption(a, b) ==
    \/ IsEmpty(a) /\ IsEmpty(b)
    \/ IsPresent(a) /\ IsPresent(b) /\ a.value = b.value
SameEither(a, b) == SameOption(a.Right, b.Right) /\ SameOption(a.Left, b.Left)

\* C19: Option.Equals(other) is true exactly when other is an Option of the
\* same type and both are empty or both are present with equal values;
\* Either.Equals and Try.Equals are true only when both sides are on the
\* same branch with equal contents.
C19_StructuralEquality ==
    /\ last.op = "Option.Equals"
          => last.ret.bool = (/\ last.other.type = "Option"
                              /\ SameOption(last.option, last.other.option))
    /\ (last.op = "Either.Equals" /\ last.ret.bool)
          => /\ last.other.type = "Either"
             /\ SameEither(last.either, last.other.either)
    /\ (last.op = "Equals" /\ last.ret.bool)
          => /\ last.other.type = "Try"
             /\ SameEither(ToEither(Arg), ToEither(last.other.try))

\* C20: Map and FlatMap of Either apply f, once, to the value of a Right
\* and return a Left unchanged without invoking f; MapLeft and FlatMapLeft
\* apply f, once, to the value of a Left and return a Right unchanged
\* without invoking f.
C20_EitherRightBiased ==
    LET e == last.either
        r == Get(e.Right)
        l == Get(e.Left)
        Passed == last.ret.either = e /\ last.events = <<>>
    IN /\ last.op = "Either.Map"
             => IF IsRight(e)
                THEN /\ last.ret.either = Right(ApplyFn(last.f, r))
                     /\ last.events = Invoked(last.f, r)
                ELSE Passed
       /\ last.op = "Either.FlatMap"
             => IF IsRight(e)
                THEN last.ret.either = last.f.ret /\ last.events = Invoked(last.f, r)
                ELSE Passed
       /\ last.op = "Either.MapLeft"
             => IF IsLeft(e)
                THEN /\ last.ret.either = Left(ApplyFn(last.f, l))
                     /\ last.events = Invoked(last.f, l)
                ELSE Passed
       /\ last.op = "Either.FlatMapLeft"
             => IF IsLeft(e)
                THEN last.ret.either = last.f.ret /\ last.events = Invoked(last.f, l)
                ELSE Passed

C20_Witness ==
    /\ last.op = "Either.FlatMap" /\ IsLeft(last.either)
    /\ IsRight(last.f.ret)
    /\ last.ret.either = Left(Get(last.either.Left))
    /\ last.events = <<>>

\* ---------------------------------------------------- claims: List and Set
\* f(...f(f(root, x1), x2)..., xn) over the first n values
RECURSIVE Cumulated(_, _, _, _)
Cumulated(values, n, root, f) ==
    IF n = 0 THEN root
    ELSE InvokeFold(f, Cumulated(values, n - 1, root, f), values[n])

\* C21: Fold([x1..xn], root, f) is f(...f(f(root, x1), x2)..., xn), f applied
\* to every element in index order; Fold of the empty list is root.
C21_FoldCumulatesAll ==
    last.op = "List.Fold"
        => last.ret.value = Cumulated(last.values, Len(last.values), last.value, last.f)

Elements(set) == {set.list.values[i] : i \in 1..Len(set.list.values)}

\* C22: Set.Equals is true when the other value is a Set with the same
\* elements, in whatever order, and false otherwise.
C22_SetEqualsSameElements ==
    last.op = "Set.Equals"
        => last.ret.bool = (/\ last.other.type = "Set"
                            /\ Elements(last.set) = Elements(last.other.set))

\* the values of seq followed by each of the first n of values that is not
\* yet present, each once
RECURSIVE WithEach(_, _, _)
WithEach(seq, values, n) ==
    IF n = 0 THEN seq
    ELSE LET before == WithEach(seq, values, n - 1)
         IN IF \E i \in 1..Len(before) : before[i] = values[n] THEN before
            ELSE Append(before, values[n])

Appended == last.op = "Set.Append" /\ last.stack = <<>>

\* C23: Append returns a Set with the elements of the original set followed
\* by each given value that was not already present, each once.
C23_AppendAddsNewValues ==
    Appended
        => ToArray(last.ret.set.list)
              = WithEach(ToArray(last.set.list), last.values, Len(last.values))

NoTwoEqual(set) ==
    \A i, j \in 1..Len(set.list.values) :
        set.list.values[i] = set.list.values[j] => i = j

\* C24: Pure and Of return a Set holding every distinct input value exactly
\* once, in the order of first occurrence, and no Set that a Set operation
\* returns holds two equal elements.
C24_PureKeepsDistinctValues ==
    /\ last.op \in {"Set.Pure", "Set.Of"}
          => ToArray(last.ret.set.list) = WithEach(<<>>, last.values, Len(last.values))
    /\ NoTwoEqual(last.set) /\ NoTwoEqual(last.ret.set)

\* ------------------------------------------------------- claims: chains
\* the registrations [f, arg] that the Finally calls of the chain of try
\* made, those of the chains its closures captured included
RECURSIVE Registrations(_)
Registrations(try) ==
    LET c == Closure(try)
    IN CASE c.kind = "noop" -> <<>>
         [] c.kind = "finally" /\ c.f.kind = "user" ->
              <<[f |-> c.f, arg |-> Value(try)]>> \o Registrations(c.try)
         [] c.kind = "finally" /\ c.f.kind = "runPending" ->
              Registrations(c.try) \o Registrations(c.f.try)
         [] c.kind \in {"flatMap", "flatMapFail"} ->
              Registrations(c.r) \o Registrations(c.try)

Count(seq, x) == Cardinality({i \in 1..Len(seq) : seq[i] = x})

\* C25: one End on the outermost Try of a chain invokes each function
\* registered with Finally at most once: no registration [f, arg] is
\* invoked more often than the chain registered it.
C25_AtMostOnce ==
    Ended => \A i \in FinalizerEvents(last.events) :
                Count(last.events, last.events[i])
                    <= Count(Registrations(Arg), last.events[i])

C25_Witness ==
    /\ Ended
    /\ Len(Registrations(Arg)) = 3
    /\ Cardinality(FinalizerEvents(last.events)) = 2
    /\ \E i \in 1..3 : Count(last.events, Registrations(Arg)[i]) = 0

\* a chain built from a Success with Finally, Map and FlatMap in which every
\* Try, those the bind callbacks returned included, is a Success
RECURSIVE AllSuccess(_)
AllSuccess(try) ==
    LET c == Closure(try)
    IN /\ IsSuccess(try)
       /\ CASE c.kind = "noop" -> TRUE
            [] c.kind = "finally" -> c.f.kind = "user" /\ AllSuccess(c.try)
            [] c.kind = "flatMap" -> AllSuccess(c.r) /\ AllSuccess(c.try)
            [] OTHER -> FALSE

\* C26: one End on the outermost Try of an all-success chain invokes every
\* function registered with Finally anywhere in the chain exactly once, on
\* the value it was registered for, and nothing else.
C26_CompleteCleanup ==
    (Ended /\ AllSuccess(Arg))
        => /\ Len(last.events) = Len(Registrations(Arg))
           /\ \A i \in 1..Len(Registrations(Arg)) :
                 Count(last.events, Registrations(Arg)[i])
                     = Count(Registrations(Arg), Registrations(Arg)[i])

C26_Witness ==
    /\ Ended /\ AllSuccess(Arg) /\ IsSuccessBind(Arg)
    /\ Registrations(Closure(Arg).r) # <<>>
    /\ Len(Registrations(Closure(Arg).try)) = 2
    /\ Len(last.events) = 3

\* t = Finally(Success(v), c)
IsFinallyOfSuccess(t) ==
    /\ IsSuccess(t)
    /\ Closure(t).kind = "finally" /\ Closure(t).f.kind = "user"
    /\ Closure(Closure(t).try) = NoOp

\* FlatMap(t, f) for t = Finally(Success(v), c) and an f that returned a
\* Failure
IsFailedBindOfFinally(try) ==
    /\ IsSuccessBind(try)
    /\ IsFail(Closure(try).r)
    /\ IsFinallyOfSuccess(Closure(try).try)

\* C27: for t = Finally(Success(v), c) and an f that returns a Failure,
\* FlatMap(t, f) is a Failure, End on it returns a Failure and invokes c(v)
\* exactly once, after the pending action of the Try that f returned.
C27_CleanupSurvivesFailingBind ==
    /\ (last.op = "FlatMap" /\ IsFinallyOfSuccess(Arg) /\ IsFail(last.f.ret))
          => /\ IsFail(last.res)
             /\ IsFailedBindOfFinally(last.res)
             /\ Closure(last.res).try = Arg /\ Closure(last.res).r = last.f.ret
    /\ (Ended /\ IsFailedBindOfFinally(Arg))
        => LET r == Closure(Arg).r
               t == Closure(Arg).try
               cv == [f |-> Closure(t).f, arg |-> Value(t)]
           IN /\ IsFail(Arg) /\ IsFail(last.res)
              /\ Arg.either = r.either
              /\ last.events = End(r).events \o <<cv>>
              /\ IsFailedStack(r)
                    => last.events = Registered(Closure(r).try) \o <<cv>>

C27_Witness ==
    /\ Ended /\ IsFailedBindOfFinally(Arg)
    /\ IsFailedStack(Closure(Arg).r)
    /\ Len(last.events) = 2
    /\ last.events[2] = [f |-> Closure(Closure(Arg).try).f, arg |-> Value(Closure(Arg).try)]
    /\ last.events[1].f # last.events[2].f

\* the invocations of bind callbacks among events: of a caller's closure
\* passed to FlatMap / FlatMapFail, or of the function passed to Map /
\* MapLeft
BindEvents(events) ==
    {i \in 1..Len(events) : events[i].f.kind \in {"const", "fn"}}

\* C28: FlatMap and Map on a Success, and FlatMapFail and MapLeft on a
\* Failure, invoke f exactly once, during the call itself; no End, on the
\* result or on a Try derived from it, invokes a bind callback.
C28_BindEagerOneShot ==
    /\ (last.op \in {"FlatMap", "Map"} /\ IsSuccess(Arg))
          => last.events = Invoked(last.f, Value(Arg))
    /\ (last.op \in {"FlatMapFail", "MapLeft"} /\ IsFail(Arg))
          => last.events = Invoked(last.f, Error(Arg))
    /\ last.op \in {"FlatMap", "Map", "FlatMapFail", "MapLeft"}
          => BindEvents(End(last.res).events) = {}
    /\ Ended => BindEvents(last.events) = {}

C28_Witness ==
    /\ Ended /\ last.events # <<>>
    /\ Closure(Arg).kind = "finally"
    /\ IsSuccessBind(Closure(Arg).try)
    /\ Closure(Closure(Closure(Arg).try).r) # NoOp

\* C29: every call of Set.Append terminates: the recursion between the
\* function Append, the callback it gives to list.Fold and the method
\* Set.Append always reaches a call that recurses no further, and the
\* outermost call returns.
C29_AppendTerminates ==
    [](last.op = "Set.Append" => <>Appended)

\* an Append that returned although a value it visited was not in the set,
\* so that its callback called the method Set.Append
C29_Witness ==
    /\ Appended
    /\ \E i \in 1..FoldBound(last.values) :
           ~ListContains(last.set.list, last.values[i])
=============================================================================
